---- MODULE Spec2Model ----
(***************************************************************************)
(* Model of nbtquery.c: the RFC 1001/1002 Node Status query.  One run of   *)
(* main(): argument normalisation, nbstat_query (transport setup, request  *)
(* encoding, send, bounded wait, receive), nbstat_decode_response step by  *)
(* step over the receive buffer, result construction, and release.         *)
(***************************************************************************)
EXTENDS Integers, Sequences, FiniteSets, TLC

(* ---------------- error codes (nbtquery.c:161-169) ---------------- *)
NBSTAT_EOK == 0
NBSTAT_ENOMEM == 257
NBSTAT_EINVAL == 258
NBSTAT_EWSAFAIL == 259
NBSTAT_ESOCKET == 260
NBSTAT_EPROTO == 261
NBSTAT_ETIMEOUT == 263
NBSTAT_EDEBUG == 512

(* ---------------- protocol constants ---------------- *)
OPCODE_QUERY == 0
QTYPE_NBSTAT == 33
QCLASS_IN == 1
RR_TYPE_NB == 32
RR_TYPE_NBSTAT == 33
MAX_DATAGRAM == 576
DATA_SIZE == 1024
Q_NAME_SIZE == 34
RR_NAME_SIZE == 34
NBF_NAME_SIZE == 15
UNIT_ID_SIZE == 6
ENTRY_SIZE == 18
STAT_SIZE == 46
TIMEOUT_FALLBACK == 3000
TIMEOUT_MAX == 10000
NBT_DEFAULT_PORT == 137

(* ---------------- bounds of the exploration ---------------- *)
MaxNames == 2

Undef == -1

(* Values of main's `timeout` after option parsing (0: no -t option). *)
TimeoutArgs == {-1, 0, 1, 2000, 10000, 10001, 50000}
(* Values of main's `port` after option parsing (0: no -p option). *)
PortArgs == {-1, 0, 1, 139, 65535, 65536, 70000}
(* The command lines explored: one option varied at a time, and both set. *)
CommandLines ==
    (TimeoutArgs \X {0}) \cup ({0} \X PortArgs) \cup {<< 2000, 139 >>}
(* Values returned by GetCurrentProcessId(). *)
ProcessIds == {4660, 70000}
(* Count bytes carried by a response. *)
CountBytes == (0..MaxNames) \cup {26, 27, 255}
(* Resource-record types carried by a response. *)
RrTypes == {RR_TYPE_NBSTAT, RR_TYPE_NB}
(* Payload patterns of a response. *)
Seeds == {0, 129}
(* Lengths of the datagrams the peer may send. *)
WireLengths ==
    {0, 10, 48, 56, 57, MAX_DATAGRAM, MAX_DATAGRAM + 1, DATA_SIZE}
    \cup { 103 + ENTRY_SIZE * n + d : n \in (0..MaxNames) \cup {26, 27}, d \in {-1, 0, 1} }

(* ---------------- integer helpers ---------------- *)
Max(a, b) == IF a >= b THEN a ELSE b

RECURSIVE Pow2(_)
Pow2(n) == IF n = 0 THEN 1 ELSE 2 * Pow2(n - 1)

Shl(x, n) == x * Pow2(n)
Shr(x, n) == x \div Pow2(n)

RECURSIVE BitAnd(_, _)
BitAnd(a, b) ==
    IF a = 0 \/ b = 0 THEN 0
    ELSE 2 * BitAnd(a \div 2, b \div 2) + (IF a % 2 = 1 /\ b % 2 = 1 THEN 1 ELSE 0)

RECURSIVE BitOr(_, _)
BitOr(a, b) ==
    IF a = 0 THEN b
    ELSE IF b = 0 THEN a
    ELSE 2 * BitOr(a \div 2, b \div 2) + (IF a % 2 = 1 \/ b % 2 = 1 THEN 1 ELSE 0)

U16(x) == x % 65536

(* ---------------- byte-order codec ---------------- *)
dec8be(d, p) == d[p]
dec16be(d, p) == U16(BitOr(Shl(d[p], 8), d[p + 1]))
(* A 32-bit value is kept as << high word, low word >>: the value is        *)
(* high * 65536 + low, which does not fit the checker's integers.           *)
dec32be(d, p) ==
    << BitOr(Shl(d[p], 8), d[p + 1]), BitOr(Shl(d[p + 2], 8), d[p + 3]) >>
enc16be(x) == << BitAnd(Shr(x, 8), 255), BitAnd(x, 255) >>

(* memcpy of a byte sequence into the buffer at offset off. *)
WriteAt(d, off, bytes) ==
    [k \in DOMAIN d |->
        IF k >= off /\ k < off + Len(bytes) THEN bytes[k - off + 1] ELSE d[k]]

(* The bytes d[p .. p+n-1] as a sequence. *)
Bytes(d, p, n) == [j \in 1..n |-> d[p + j - 1]]

(* buffer_init: data zeroed, length 0. *)
ZeroData == [k \in 0..(DATA_SIZE - 1) |-> 0]

(* ---------------- NetBIOS name encoder ---------------- *)
(* The expansion with the two nibbles of each byte emitted low first. *)
RECURSIVE HalfAscii_LowFirst(_)
HalfAscii_LowFirst(src) ==
    IF src = << >> THEN << >>
    ELSE << 65 + BitAnd(Head(src), 15), 65 + BitAnd(Shr(Head(src), 4), 15) >>
         \o HalfAscii_LowFirst(Tail(src))

RECURSIVE HalfAscii(_)
HalfAscii(src) ==
    IF src = << >> THEN << >>
    ELSE << 65 + BitAnd(Shr(Head(src), 4), 15), 65 + BitAnd(Head(src), 15) >>
         \o HalfAscii(Tail(src))

netbios_encode_name(src) == << 32 >> \o HalfAscii(src) \o << 0 >>

(* nbtname: '*' followed by 15 NUL bytes. *)
WildcardLabel == [j \in 1..16 |-> IF j = 1 THEN 42 ELSE 0]

(* The query structure filled in by nbstat_query. *)
BuildQuery(pid) ==
    [ hdr |-> [ name_trn_id |-> U16(pid),
                r |-> 0, opcode |-> OPCODE_QUERY,
                aa |-> 0, tc |-> 0, rd |-> 0, ra |-> 0,
                unused1 |-> 0, unused2 |-> 0, b |-> 0, rcode |-> 0,
                qdcount |-> 1, ancount |-> 0, nscount |-> 0, arcount |-> 0 ],
      question |-> [ q_name |-> netbios_encode_name(WildcardLabel),
                     q_type |-> QTYPE_NBSTAT,
                     q_class |-> QCLASS_IN ] ]

(* ---------------- request builder ---------------- *)
EncodeFlags(h) ==
    LET f1 == BitOr(0, BitAnd(Shl(h.r, 15), 32768))
        f2 == BitOr(f1, BitAnd(Shl(h.opcode, 11), 30720))
        f3 == BitOr(f2, BitAnd(Shl(h.aa, 10), 1024))
        f4 == BitOr(f3, BitAnd(Shl(h.tc, 9), 512))
        f5 == BitOr(f4, BitAnd(Shl(h.rd, 8), 256))
        f6 == BitOr(f5, BitAnd(Shl(h.ra, 7), 128))
        f7 == BitOr(f6, BitAnd(Shl(h.unused1, 6), 64))
        f8 == BitOr(f7, BitAnd(Shl(h.unused2, 5), 32))
        f9 == BitOr(f8, BitAnd(Shl(h.b, 4), 16))
    IN  U16(BitOr(f9, BitAnd(h.rcode, 15)))

(* The bytes nbstat_encode_request writes, in cursor order. *)
nbstat_encode_request(q) ==
    enc16be(q.hdr.name_trn_id)
    \o enc16be(EncodeFlags(q.hdr))
    \o enc16be(q.hdr.qdcount)
    \o enc16be(q.hdr.ancount)
    \o enc16be(q.hdr.nscount)
    \o enc16be(q.hdr.arcount)
    \o SubSeq(q.question.q_name, 1, Q_NAME_SIZE)
    \o enc16be(q.question.q_type)
    \o enc16be(q.question.q_class)

(* ---------------- response datagrams on the wire ---------------- *)
Fill(k, s) == (k * 7 + s) % 256

Datagram(L, n, t, s) ==
    [j \in 1..L |->
        LET k == j - 1 IN
        IF k = 46 THEN Shr(t, 8) % 256
        ELSE IF k = 47 THEN t % 256
        ELSE IF k = 56 THEN n
        ELSE Fill(k, s)]

(* ---------------- state ---------------- *)
VARIABLES
    pc,          \* position in main / nbstat_query / nbstat_decode_response
    argTimeout,  \* main: timeout as parsed from the command line
    timeout,     \* nbstat_query: the timeout parameter
    data,        \* nbstat_query: char data[1024], the buffer storage
    length,      \* buffer.length
    sent,        \* datagrams handed to sendto, in order
    waits,       \* delays handed to socket_timeout, in order
    nrecv,       \* number of recvfrom calls
    rep,         \* struct nbstat_response
    ptr,         \* decoder cursor, as an offset into data
    i,           \* decoder loop counter
    maxRead,     \* highest buffer index the decoder has read (-1: none)
    nalloc,      \* number of entry records malloc has returned
    heap,        \* ids of the live heap blocks
    result,      \* *nbstat: << >> is NULL, << r >> the result object
    ret,         \* return value of nbstat_query (Undef while running)
    query,       \* nbstat_query: struct nbstat_query query
    nready,      \* nbstat_query: value returned by socket_timeout
    dres,        \* nbstat_query: value returned by nbstat_decode_response
    argPort,     \* main: port as parsed from the command line
    port,        \* nbstat_query: the uint16_t port parameter
    sinPort      \* nbstat_socket: port of the address the socket is connected to

vars == << pc, argTimeout, timeout, data, length, sent, waits, nrecv,
           rep, ptr, i, maxRead, nalloc, heap, result, ret, query, nready, dres,
           argPort, port, sinPort >>

RESULT_BLOCK == 0

HdrUndef ==
    [ name_trn_id |-> Undef, r |-> Undef, opcode |-> Undef,
      aa |-> Undef, tc |-> Undef, rd |-> Undef, ra |-> Undef,
      unused1 |-> Undef, unused2 |-> Undef, b |-> Undef, rcode |-> Undef,
      qdcount |-> Undef, ancount |-> Undef, nscount |-> Undef, arcount |-> Undef ]

QueryUndef ==
    [ hdr |-> HdrUndef,
      question |-> [ q_name |-> << >>, q_type |-> Undef, q_class |-> Undef ] ]

RepUndef ==
    [ hdr |-> HdrUndef,
      rr |-> [ rr_type |-> Undef, rr_class |-> Undef, ttl |-> << >>, rdlength |-> Undef ],
      num_names |-> Undef,
      node |-> << >>,
      stat |-> [ unit_id |-> << >>, counters |-> << >> ] ]

Init ==
    /\ pc = "main"
    /\ \E cl \in CommandLines : argTimeout = cl[1] /\ argPort = cl[2]
    /\ timeout = Undef
    /\ data = ZeroData
    /\ length = 0
    /\ sent = << >>
    /\ waits = << >>
    /\ nrecv = 0
    /\ rep = RepUndef
    /\ ptr = 0
    /\ i = 0
    /\ maxRead = -1
    /\ nalloc = 0
    /\ heap = {}
    /\ result = << >>
    /\ ret = Undef
    /\ query = QueryUndef
    /\ nready = Undef
    /\ dres = Undef
    /\ port = Undef
    /\ sinPort = Undef

(* ---------------- main ---------------- *)
(* main, lines 878-883: the default is substituted for a zero timeout and  *)
(* nbstat_query is called.                                                  *)
MainDefaultTimeout(t) == IF t = 0 THEN 3000 ELSE t

(* main, lines 878-879: the default is substituted for a zero port. *)
MainDefaultPort(p) == IF p = 0 THEN NBT_DEFAULT_PORT ELSE p

(* Conversion of main's int argument to the uint16_t parameter. *)
ToU16(x) == x % 65536

(* _snprintf(buffer, 6, "%u", port): the decimal digits, at most 5 kept. *)
RECURSIVE Digits(_)
Digits(n) == IF n < 10 THEN << n >> ELSE Append(Digits(n \div 10), n % 10)

FormatPort(p) == SubSeq(Digits(p), 1, IF Len(Digits(p)) < 5 THEN Len(Digits(p)) ELSE 5)

(* getaddrinfo: the numeric service string read back as a port number. *)
RECURSIVE ParseService(_)
ParseService(ds) ==
    IF ds = << >> THEN 0
    ELSE ParseService(SubSeq(ds, 1, Len(ds) - 1)) * 10 + ds[Len(ds)]

Main ==
    /\ pc = "main"
    /\ timeout' = MainDefaultTimeout(argTimeout)
    /\ port' = ToU16(MainDefaultPort(argPort))
    /\ pc' = "winsock_init"
    /\ UNCHANGED << argTimeout, argPort, sinPort, query, nready, dres, data, length, sent, waits, nrecv, rep, ptr, i,
                    maxRead, nalloc, heap, result, ret >>

(* ---------------- nbstat_query: transport setup ---------------- *)
QueryWinsockInit ==
    /\ pc = "winsock_init"
    /\ \E ok \in BOOLEAN :
          IF ok THEN pc' = "socket" /\ ret' = ret
          ELSE pc' = "returned" /\ ret' = NBSTAT_EWSAFAIL
    /\ UNCHANGED << argTimeout, argPort, port, sinPort, query, nready, dres, timeout, data, length, sent, waits, nrecv, rep,
                    ptr, i, maxRead, nalloc, heap, result >>

QuerySocket ==
    /\ pc = "socket"
    /\ sinPort' = ParseService(FormatPort(port))
    /\ \E ok \in BOOLEAN :
          IF ok THEN pc' = "encode" /\ ret' = ret
          ELSE pc' = "returned" /\ ret' = NBSTAT_ESOCKET
    /\ UNCHANGED << argTimeout, argPort, port, query, nready, dres, timeout, data, length, sent, waits, nrecv, rep,
                    ptr, i, maxRead, nalloc, heap, result >>

(* ---------------- nbstat_query: build and encode the request ---------- *)
QueryEncode ==
    /\ pc = "encode"
    /\ \E pid \in ProcessIds :
          LET q == BuildQuery(pid)
              req == nbstat_encode_request(q)
          IN /\ query' = q
             /\ data' = WriteAt(ZeroData, 0, req)
             /\ length' = Len(req)
    /\ pc' = "send"
    /\ UNCHANGED << argTimeout, argPort, port, sinPort, nready, dres, timeout, sent, waits, nrecv, rep, ptr, i,
                    maxRead, nalloc, heap, result, ret >>

(* ---------------- nbstat_query: send ---------------- *)
QuerySend ==
    /\ pc = "send"
    /\ sent' = Append(sent, Bytes(data, 0, length))
    /\ \E r \in {-1, length - 1, length} :
          IF r = -1 \/ r # length
          THEN pc' = "returned" /\ ret' = NBSTAT_EDEBUG
          ELSE pc' = "wait" /\ ret' = ret
    /\ UNCHANGED << argTimeout, argPort, port, sinPort, query, nready, dres, timeout, data, length, waits, nrecv, rep, ptr, i,
                    maxRead, nalloc, heap, result >>

(* ---------------- nbstat_query: bounded wait ---------------- *)
(* The normalisation falling back to TIMEOUT_DEFAULT (line 31) instead. *)
NormalizeTimeout_Default5000(t) == IF t > TIMEOUT_MAX \/ t <= 0 THEN 5000 ELSE t

NormalizeTimeout(t) == IF t > TIMEOUT_MAX \/ t <= 0 THEN TIMEOUT_FALLBACK ELSE t

(* The expiry branch falling through to the receive. *)
OnExpiry_FallThrough == [ pc |-> "recv", ret |-> Undef ]

(* What nbstat_query does when select reports that nothing is ready. *)
OnExpiry == [ pc |-> "returned", ret |-> NBSTAT_ETIMEOUT ]

QueryWait ==
    /\ pc = "wait"
    /\ data' = ZeroData
    /\ length' = 0
    /\ timeout' = NormalizeTimeout(timeout)
    /\ waits' = Append(waits, timeout')
    /\ nready' \in {-1, 0, 1}
    /\ IF nready' = -1 THEN pc' = "returned" /\ ret' = NBSTAT_EDEBUG
       ELSE IF nready' = 0 THEN pc' = OnExpiry.pc /\ ret' = OnExpiry.ret
       ELSE pc' = "recv" /\ ret' = ret
    /\ UNCHANGED << argTimeout, argPort, port, sinPort, query, dres, sent, nrecv, rep, ptr, i, maxRead, nalloc,
                    heap, result >>

(* ---------------- nbstat_query: receive ---------------- *)
QueryRecv ==
    /\ pc = "recv"
    /\ nrecv' = nrecv + 1
    /\ \/ /\ pc' = "returned"
          /\ ret' = NBSTAT_EDEBUG
          /\ UNCHANGED << data, length >>
       \/ \E L \in WireLengths, n \in CountBytes, t \in RrTypes, s \in Seeds :
             /\ L <= DATA_SIZE
             /\ data' = WriteAt(data, 0, Datagram(L, n, t, s))
             /\ length' = L
             /\ pc' = "dec_ceiling"
             /\ ret' = ret
    /\ UNCHANGED << argTimeout, argPort, port, sinPort, query, nready, dres, timeout, sent, waits, rep, ptr, i, maxRead,
                    nalloc, heap, result >>

(* ---------------- nbstat_decode_response ---------------- *)
(* The ceiling taken from the buffer size instead of the datagram size. *)
TooLong_BufferSize(len) == len > DATA_SIZE

TooLong(len) == len > MAX_DATAGRAM

DecodeCeiling ==
    /\ pc = "dec_ceiling"
    /\ IF TooLong(length)
       THEN pc' = "returned" /\ ret' = NBSTAT_EPROTO /\ dres' = NBSTAT_EPROTO
       ELSE pc' = "dec_header" /\ UNCHANGED << ret, dres >>
    /\ UNCHANGED << argTimeout, argPort, port, sinPort, query, nready, timeout, data, length, sent, waits, nrecv, rep,
                    ptr, i, maxRead, nalloc, heap, result >>

(* The header fields as assigned from the flags word and the counts. *)
DecodeHdr(d) ==
    LET flags == dec16be(d, 2) IN
    [ name_trn_id |-> dec16be(d, 0),
      r |-> BitAnd(Shr(flags, 15), 1),
      opcode |-> BitAnd(Shr(flags, 11), 15),
      aa |-> flags % 2,
      tc |-> flags % 2,
      rd |-> flags % 2,
      ra |-> flags % 2,
      unused1 |-> flags % 2,
      unused2 |-> flags % 2,
      b |-> flags % 2,
      rcode |-> flags % 16,
      qdcount |-> dec16be(d, 4),
      ancount |-> dec16be(d, 6),
      nscount |-> dec16be(d, 8),
      arcount |-> dec16be(d, 10) ]

DecodeHeader ==
    /\ pc = "dec_header"
    /\ rep' = [rep EXCEPT !.hdr = DecodeHdr(data)]
    /\ ptr' = 12
    /\ maxRead' = Max(maxRead, 11)
    /\ pc' = "dec_rr"
    /\ UNCHANGED << argTimeout, argPort, port, sinPort, query, nready, dres, timeout, data, length, sent, waits, nrecv, i,
                    nalloc, heap, result, ret >>

(* The type check also letting the general name-service record through. *)
TypeOk_AlsoNB(t) == t = RR_TYPE_NBSTAT \/ t = RR_TYPE_NB

TypeOk(t) == t = RR_TYPE_NBSTAT

DecodeRR ==
    /\ pc = "dec_rr"
    /\ LET p == ptr + RR_NAME_SIZE
           type == dec16be(data, p)
       IN IF ~TypeOk(type)
          THEN /\ rep' = [rep EXCEPT !.rr.rr_type = type]
               /\ ptr' = p + 2
               /\ maxRead' = Max(maxRead, p + 1)
               /\ pc' = "returned"
               /\ ret' = NBSTAT_EPROTO
               /\ dres' = NBSTAT_EPROTO
          ELSE /\ rep' = [rep EXCEPT !.rr = [ rr_type |-> type,
                                              rr_class |-> dec16be(data, p + 2),
                                              ttl |-> dec32be(data, p + 4),
                                              rdlength |-> dec16be(data, p + 8) ]]
               /\ ptr' = p + 10
               /\ maxRead' = Max(maxRead, p + 9)
               /\ pc' = "dec_count"
               /\ UNCHANGED << ret, dres >>
    /\ UNCHANGED << argTimeout, argPort, port, sinPort, query, nready, timeout, data, length, sent, waits, nrecv, i,
                    nalloc, heap, result >>

(* The cross-check without the statistics block. *)
LengthOk_NoStat(off, n, len) == off + ENTRY_SIZE * n = len

(* The cross-check as a lower bound on the length. *)
LengthOk_AtLeast(off, n, len) == off + (ENTRY_SIZE * n + STAT_SIZE) <= len

(* The length cross-check. *)
LengthOk(off, n, len) == off + (ENTRY_SIZE * n + STAT_SIZE) = len

DecodeCount ==
    /\ pc = "dec_count"
    /\ LET n == dec8be(data, ptr) IN
       /\ ptr' = ptr + 1
       /\ maxRead' = Max(maxRead, ptr)
       /\ IF ~LengthOk(ptr + 1, n, length)
          THEN /\ rep' = [rep EXCEPT !.num_names = n]
               /\ pc' = "returned"
               /\ ret' = NBSTAT_EPROTO
               /\ dres' = NBSTAT_EPROTO
          ELSE /\ rep' = [rep EXCEPT !.num_names = n, !.node = << >>]
               /\ pc' = "dec_entry"
               /\ UNCHANGED << ret, dres >>
    /\ i' = 0
    /\ UNCHANGED << argTimeout, argPort, port, sinPort, query, nready, timeout, data, length, sent, waits, nrecv,
                    nalloc, heap, result >>

(* node_name_free: every record of the list is released. *)
node_name_free(h, node) == h \ { node[k].id : k \in DOMAIN node }

(* One name-table entry decoded at offset p into the block id. *)
DecodeNode(d, p, id) ==
    LET flags == dec16be(d, p + NBF_NAME_SIZE + 1) IN
    [ id |-> id,
      nbf_name |-> Bytes(d, p, NBF_NAME_SIZE),
      suffix |-> dec8be(d, p + NBF_NAME_SIZE),
      g |-> BitAnd(Shr(flags, 15), 1),
      ont |-> BitAnd(Shr(flags, 13), 3),
      drg |-> BitAnd(Shr(flags, 12), 1),
      cnf |-> BitAnd(Shr(flags, 11), 1),
      act |-> BitAnd(Shr(flags, 10), 1),
      prm |-> BitAnd(Shr(flags, 9), 1),
      reserved |-> BitAnd(flags, 511) ]

(* Linking a new record at the head of the list. *)
Link_AtHead(node, e) == << e >> \o node

(* Linking a new record at the tail of the list. *)
Link(node, e) == Append(node, e)

DecodeEntry ==
    /\ pc = "dec_entry"
    /\ i < rep.num_names
    /\ \E ok \in BOOLEAN :
          IF ~ok
          THEN /\ heap' = node_name_free(heap, rep.node)
               /\ pc' = "returned"
               /\ ret' = NBSTAT_ENOMEM
               /\ dres' = NBSTAT_ENOMEM
               /\ UNCHANGED << rep, ptr, i, maxRead, nalloc >>
          ELSE /\ nalloc' = nalloc + 1
               /\ heap' = heap \cup {nalloc + 1}
               /\ rep' = [rep EXCEPT !.node = Link(rep.node, DecodeNode(data, ptr, nalloc + 1))]
               /\ ptr' = ptr + ENTRY_SIZE
               /\ maxRead' = Max(maxRead, ptr + ENTRY_SIZE - 1)
               /\ i' = i + 1
               /\ UNCHANGED << pc, ret, dres >>
    /\ UNCHANGED << argTimeout, argPort, port, sinPort, query, nready, timeout, data, length, sent, waits, nrecv, result >>

(* The widths with number_good_sends read as a 16-bit field. *)
StatWidths_ShortSends == << 1, 1, 2, 2, 2, 2, 2, 2, 2, 4, 2, 2, 2, 2, 2, 2, 2, 2, 2 >>

(* Widths of the statistics fields that follow unit_id, in wire order. *)
StatWidths == << 1, 1, 2, 2, 2, 2, 2, 2, 4, 4, 2, 2, 2, 2, 2, 2, 2, 2, 2 >>

RECURSIVE SumSeq(_)
SumSeq(s) == IF s = << >> THEN 0 ELSE Head(s) + SumSeq(Tail(s))

RECURSIVE DecodeCounters(_, _, _)
DecodeCounters(d, p, ws) ==
    IF ws = << >> THEN << >>
    ELSE << (IF Head(ws) = 1 THEN dec8be(d, p)
             ELSE IF Head(ws) = 2 THEN dec16be(d, p)
             ELSE dec32be(d, p)) >>
         \o DecodeCounters(d, p + Head(ws), Tail(ws))

DecodeStat ==
    /\ pc = "dec_entry"
    /\ ~(i < rep.num_names)
    /\ LET q == ptr + UNIT_ID_SIZE
           end == q + SumSeq(StatWidths)
       IN /\ rep' = [rep EXCEPT !.stat = [ unit_id |-> Bytes(data, ptr, UNIT_ID_SIZE),
                                           counters |-> DecodeCounters(data, q, StatWidths) ]]
          /\ ptr' = end
          /\ maxRead' = Max(maxRead, end - 1)
          /\ IF end # length
             THEN pc' = "returned" /\ ret' = NBSTAT_EDEBUG /\ dres' = NBSTAT_EDEBUG
             ELSE pc' = "result" /\ ret' = ret /\ dres' = NBSTAT_EOK
    /\ UNCHANGED << argTimeout, argPort, port, sinPort, query, nready, timeout, data, length, sent, waits, nrecv, i,
                    nalloc, heap, result >>

(* ---------------- nbstat_query: the result object ---------------- *)
QueryResult ==
    /\ pc = "result"
    /\ \E ok \in BOOLEAN :
          IF ~ok
          THEN /\ result' = << >>
               /\ ret' = NBSTAT_ENOMEM
               /\ UNCHANGED heap
          ELSE /\ result' = << [ hwaddr |-> rep.stat.unit_id,
                                 count |-> Len(rep.node),
                                 node |-> rep.node ] >>
               /\ heap' = heap \cup {RESULT_BLOCK}
               /\ ret' = NBSTAT_EOK
    /\ pc' = "returned"
    /\ UNCHANGED << argTimeout, argPort, port, sinPort, query, nready, dres, timeout, data, length, sent, waits, nrecv, rep,
                    ptr, i, maxRead, nalloc >>

(* ---------------- main: report, release, exit ---------------- *)
nbstat_free(h, res) ==
    IF res = << >> THEN h
    ELSE node_name_free(h, res[1].node) \ {RESULT_BLOCK}

MainFinish ==
    /\ pc = "returned"
    /\ heap' = IF ret # NBSTAT_EOK THEN heap ELSE nbstat_free(heap, result)
    /\ pc' = "exit"
    /\ UNCHANGED << argTimeout, argPort, port, sinPort, query, nready, dres, timeout, data, length, sent, waits, nrecv, rep,
                    ptr, i, maxRead, nalloc, result, ret >>

Next ==
    \/ Main
    \/ QueryWinsockInit
    \/ QuerySocket
    \/ QueryEncode
    \/ QuerySend
    \/ QueryWait
    \/ QueryRecv
    \/ DecodeCeiling
    \/ DecodeHeader
    \/ DecodeRR
    \/ DecodeCount
    \/ DecodeEntry
    \/ DecodeStat
    \/ QueryResult
    \/ MainFinish

Spec == Init /\ [][Next]_vars

(***************************************************************************)
(* Properties                                                              *)
(***************************************************************************)
Finished == pc \in {"returned", "exit"}

(* The decoder has returned on the datagram now in the buffer. *)
Decoded == dres # Undef

(* The decoder is running on the datagram now in the buffer. *)
Decoding == pc \in {"dec_ceiling", "dec_header", "dec_rr", "dec_count", "dec_entry"}

(* Offset of the cursor just after the count byte: header, resource record *)
(* and count byte.                                                          *)
AfterCount == 12 + RR_NAME_SIZE + 2 + 2 + 4 + 2 + 1

(* Length that the framing of a response with count byte n calls for. *)
FramedLength(n) == AfterCount + ENTRY_SIZE * n + STAT_SIZE

WireType == data[46] * 256 + data[47]
WireCount == data[56]

(* C1 (as stated): whenever the decoder has returned on a buffer whose     *)
(* length is exactly that framed by its count byte N, whose type is 0x0021 *)
(* and no allocation failed, it returned NBSTAT_EOK -- for every N.        *)
C1_AllCounts ==
    (Decoded /\ length = FramedLength(WireCount) /\ WireType = 33
        /\ dres # NBSTAT_ENOMEM)
    => dres = NBSTAT_EOK

(* C1 (amended): the same holds for the counts N whose framed length does  *)
(* not exceed the 576-byte ceiling (N in 0..26); for a larger N the framed *)
(* length exceeds the ceiling and the decoder returns NBSTAT_EPROTO.       *)
C1_CountsWithinCeiling ==
    (Decoded /\ length = FramedLength(WireCount) /\ WireType = 33
        /\ dres # NBSTAT_ENOMEM)
    => /\ WireCount <= 26 => dres = NBSTAT_EOK
       /\ WireCount >= 27 => dres = NBSTAT_EPROTO

C1_Witness ==
    /\ pc = "result"
    /\ dres = NBSTAT_EOK
    /\ WireCount = 26
    /\ length = 571

(* C2 (as stated): every buffer index the decoder has read is below the    *)
(* declared length, at every point of the decode and after it.             *)
C2_ReadsBelowLength ==
    (Decoding \/ Decoded) => maxRead < length

(* C3 (as stated): when nbstat_query has returned an error, the caller     *)
(* holds no result object and no heap block is live.                        *)
C3_FailureReleasesAll ==
    (pc = "returned" /\ ret # NBSTAT_EOK) => (result = << >> /\ heap = {})

(* C4: when the decoder has returned on a buffer of length at most 576     *)
(* whose length differs from that framed by its count byte, it returned    *)
(* NBSTAT_EPROTO, the cursor never went past the count byte, and no entry  *)
(* record was ever allocated.                                               *)
C4_MismatchIsProto ==
    (Decoded /\ length <= MAX_DATAGRAM /\ length # FramedLength(WireCount))
    => /\ dres = NBSTAT_EPROTO
       /\ ret = NBSTAT_EPROTO
       /\ ptr <= AfterCount
       /\ nalloc = 0
       /\ heap = {}

C4_Witness ==
    /\ Decoded
    /\ WireType = 33
    /\ WireCount = 1
    /\ length = FramedLength(1) + 1
    /\ ptr = AfterCount
    /\ dres = NBSTAT_EPROTO

(* C5: once a datagram longer than 576 bytes is in the buffer, the decoder *)
(* reads no byte of it, writes no field of the response structure and      *)
(* allocates nothing, and when it has returned it returned NBSTAT_EPROTO.  *)
C5_OversizeUntouched ==
    (nrecv = 1 /\ length > MAX_DATAGRAM)
    => /\ maxRead = -1
       /\ rep = RepUndef
       /\ nalloc = 0
       /\ pc \in {"dec_ceiling", "returned", "exit"}
       /\ Decoded => (dres = NBSTAT_EPROTO /\ ret = NBSTAT_EPROTO)

C5_Witness ==
    /\ Decoded
    /\ length = MAX_DATAGRAM + 1
    /\ dres = NBSTAT_EPROTO

(* C6: when the decoder has returned on a buffer within the ceiling whose  *)
(* length is the one framed by its count byte and whose resource-record    *)
(* type is not 0x0021, it returned NBSTAT_EPROTO and allocated no entry.   *)
C6_WrongTypeIsProto ==
    (Decoded /\ length <= MAX_DATAGRAM /\ length = FramedLength(WireCount)
        /\ WireType # 33)
    => /\ dres = NBSTAT_EPROTO
       /\ ret = NBSTAT_EPROTO
       /\ nalloc = 0
       /\ heap = {}

C6_Witness ==
    /\ Decoded
    /\ WireType = 32
    /\ WireCount = 2
    /\ length = FramedLength(2)
    /\ dres = NBSTAT_EPROTO

(* C7: when nbstat_query has returned success, the result's count and the  *)
(* length of its entry sequence equal the count byte N, and for each k in  *)
(* 1..N the k-th element holds the 15 name bytes and the suffix byte of    *)
(* the k-th 18-byte entry of the datagram.                                  *)
C7_WireOrder ==
    (pc = "returned" /\ ret = NBSTAT_EOK)
    => /\ result # << >>
       /\ result[1].count = WireCount
       /\ Len(result[1].node) = WireCount
       /\ \A k \in 1..WireCount :
             LET p == AfterCount + ENTRY_SIZE * (k - 1) IN
             /\ result[1].node[k].nbf_name = [j \in 1..15 |-> data[p + j - 1]]
             /\ result[1].node[k].suffix = data[p + 15]

C7_Witness ==
    /\ pc = "returned"
    /\ ret = NBSTAT_EOK
    /\ result # << >>
    /\ result[1].count = 2
    /\ result[1].node[1].nbf_name # result[1].node[2].nbf_name
    /\ result[1].node[1].suffix # result[1].node[2].suffix

(* The request header for transaction id t: id big-endian, flags 0,        *)
(* question count 1, the other counts 0.                                    *)
RequestHeader(t) == << t \div 256, t % 256, 0, 0, 0, 1, 0, 0, 0, 0, 0, 0 >>

(* Half-ASCII expansion of '*' and 15 zero bytes: "CK" and 30 times "A". *)
WildcardExpansion == [j \in 1..32 |-> IF j = 1 THEN 67 ELSE IF j = 2 THEN 75 ELSE 65]

RequestBuilt == pc = "send"

(* C8 (as stated): the request built is 50 bytes long and is the header,   *)
(* then the name field made of the 32-byte expansion and a terminating     *)
(* zero byte, then type 0x0021 and class 0x0001, with nothing written past *)
(* the 50 bytes.                                                            *)
C8_NameIsExpansionAndZero ==
    RequestBuilt
    => /\ length = 50
       /\ [j \in 1..length |-> data[j - 1]]
            = RequestHeader(query.hdr.name_trn_id) \o WildcardExpansion \o << 0 >>
              \o << 0, 33, 0, 1 >>
       /\ \A k \in 50..(DATA_SIZE - 1) : data[k] = 0

(* C8 (amended): the request built is 50 bytes long and is the header,     *)
(* then the 34-byte name field made of the length byte 0x20, the 32-byte   *)
(* expansion (every byte in 'A'..'P') and a terminating zero byte, then    *)
(* type 0x0021 and class 0x0001, with nothing written past the 50 bytes;   *)
(* the datagram sent is that request.                                       *)
C8_NameIsLengthExpansionAndZero ==
    /\ RequestBuilt
       => /\ length = 50
          /\ [j \in 1..length |-> data[j - 1]]
               = RequestHeader(query.hdr.name_trn_id) \o << 32 >> \o WildcardExpansion
                 \o << 0 >> \o << 0, 33, 0, 1 >>
          /\ \A k \in 13..44 : data[k] \in 65..80
          /\ \A k \in 50..(DATA_SIZE - 1) : data[k] = 0
    /\ sent # << >>
       => sent[1] = RequestHeader(query.hdr.name_trn_id) \o << 32 >> \o WildcardExpansion
                    \o << 0 >> \o << 0, 33, 0, 1 >>

C8_Witness ==
    /\ RequestBuilt
    /\ query.hdr.name_trn_id = 4464
    /\ data[0] = 17
    /\ data[1] = 112
    /\ length = 50

(* C9: the delay handed to the wait is in 1..10000; it is the command-line *)
(* timeout when that is in 1..10000 and 3000 otherwise.                     *)
C9_DelayNormalized ==
    waits # << >>
    => /\ waits[1] \in 1..10000
       /\ argTimeout \in 1..10000 => waits[1] = argTimeout
       /\ argTimeout \notin 1..10000 => waits[1] = 3000

C9_Witness ==
    /\ waits # << >>
    /\ argTimeout = 50000
    /\ waits[1] = 3000

WireFlags == data[2] * 256 + data[3]

(* Bit n of the 16-bit word w. *)
BitOf(w, n) == (w \div Pow2(n)) % 2

HeaderDecoded == rep.hdr # HdrUndef

(* C11 (as stated): the port of the address the query is sent to is the    *)
(* command-line port when that is in 1..65535, and 137 otherwise.           *)
C11_PortNormalized ==
    sinPort # Undef
    => sinPort = (IF argPort \in 1..65535 THEN argPort ELSE 137)

(* C12 (as stated): once the header is decoded, its sub-fields are the     *)
(* bits of the flags word on the wire: r = bit 15, opcode = bits 14..11,   *)
(* aa, tc, rd, ra, unused1, unused2, b = bits 10..4, rcode = bits 3..0.    *)
C12_FlagsSplit ==
    HeaderDecoded
    => /\ rep.hdr.r = BitOf(WireFlags, 15)
       /\ rep.hdr.opcode = (WireFlags \div 2048) % 16
       /\ rep.hdr.aa = BitOf(WireFlags, 10)
       /\ rep.hdr.tc = BitOf(WireFlags, 9)
       /\ rep.hdr.rd = BitOf(WireFlags, 8)
       /\ rep.hdr.ra = BitOf(WireFlags, 7)
       /\ rep.hdr.unused1 = BitOf(WireFlags, 6)
       /\ rep.hdr.unused2 = BitOf(WireFlags, 5)
       /\ rep.hdr.b = BitOf(WireFlags, 4)
       /\ rep.hdr.rcode = WireFlags % 16

(* C13: the decoder returns only NBSTAT_EOK, NBSTAT_EPROTO or              *)
(* NBSTAT_ENOMEM, never NBSTAT_EDEBUG; and when the cross-check has passed *)
(* and the statistics are decoded, the cursor stands 46 bytes past the     *)
(* last entry and at the declared length.                                   *)
C13_NeverDebug ==
    /\ Decoded => dres \in {NBSTAT_EOK, NBSTAT_EPROTO, NBSTAT_ENOMEM}
    /\ rep.stat.unit_id # << >>
       => /\ ptr = AfterCount + ENTRY_SIZE * rep.num_names + 46
          /\ ptr = length
          /\ maxRead = length - 1
          /\ dres = NBSTAT_EOK

C13_Witness ==
    /\ pc = "result"
    /\ dres = NBSTAT_EOK
    /\ rep.num_names = 2
    /\ Len(rep.stat.unit_id) = 6
    /\ ptr = 139
    /\ length = 139

====
